---- MODULE Spec2Model ----
(***************************************************************************)
(* Model of the SVG flattening core of Fontello-Offline-CLI:               *)
(*   processTree    - the recursive tree flattener                         *)
(*   getCoordinates - the coordinate resolver                              *)
(*   convert        - the orchestrator (parse, flatten, resolve, merge)    *)
(*                                                                         *)
(* Strings are sequences of one-character strings, so that '' is <<>>,     *)
(* s.length is Len(s), s[i] is s[i+1] and a + b is a \o b.                 *)
(* A path-data string produced by the external svgpath library is a        *)
(* sequence of segments, each recording the d it came from and the         *)
(* transform string it was transformed by; '' is again <<>>.               *)
(***************************************************************************)
EXTENDS Integers, Sequences, FiniteSets, TLC

\* ------------------------------------------------------------------------
\* Bounds of the model
\* ------------------------------------------------------------------------

\* Largest number of nodes below the svg root in a generated document.
MaxNodes == 3

\* ------------------------------------------------------------------------
\* JavaScript values
\* ------------------------------------------------------------------------

\* A JS number that is not NaN.
Num(n) == [k |-> "num", v |-> n]

\* NaN, as returned by parseFloat on text that does not start with a number.
NaN == [k |-> "nan", v |-> 0]

\* undefined, the value of a property that was never assigned.
Undefined == [k |-> "undef", v |-> 0]

\* JS truthiness of a number-or-undefined value: 0, NaN and undefined are falsy.
Truthy(a) == a.k = "num" /\ a.v # 0

\* JS `a < 0`: false for NaN and undefined.
Negative(a) == a.k = "num" /\ a.v < 0

\* JS `a || 0`.
OrZero(a) == IF Truthy(a) THEN a ELSE Num(0)

\* The value of each decimal digit character.
DigitVal ==
  ("0" :> 0) @@ ("1" :> 1) @@ ("2" :> 2) @@ ("3" :> 3) @@ ("4" :> 4) @@
  ("5" :> 5) @@ ("6" :> 6) @@ ("7" :> 7) @@ ("8" :> 8) @@ ("9" :> 9)

RECURSIVE ParseDigits(_, _, _)
\* The integer denoted by the run of digits of s that starts at index i.
ParseDigits(s, i, acc) ==
  IF i > Len(s) \/ s[i] \notin DOMAIN DigitVal
    THEN acc
    ELSE ParseDigits(s, i + 1, acc * 10 + DigitVal[s[i]])

\* parseFloat restricted to optionally signed integers: the longest numeric
\* prefix is converted, trailing text is ignored, no numeric prefix gives NaN.
parseFloat(s) ==
  LET neg   == Len(s) > 0 /\ s[1] = "-"
      start == IF neg THEN 2 ELSE 1
  IN IF start > Len(s) \/ s[start] \notin DOMAIN DigitVal
       THEN NaN
       ELSE Num((IF neg THEN -1 ELSE 1) * ParseDigits(s, start, 0))

\* ------------------------------------------------------------------------
\* The parsed document (xmldom)
\* ------------------------------------------------------------------------

\* An attribute node.
Attr(n, val) == [nodeName |-> n, value |-> val]

\* An element node (nodeType 1).
Element(name, attrs, kids) ==
  [nodeType |-> 1, nodeName |-> name, attributes |-> attrs, childNodes |-> kids]

\* A text node (nodeType 3).
TextNode ==
  [nodeType |-> 3, nodeName |-> "#text", attributes |-> <<>>, childNodes |-> <<>>]

RECURSIVE AttrLookup(_, _, _)
\* Value of the first attribute called name at or after index i, '' if none.
AttrLookup(attrs, name, i) ==
  IF i > Len(attrs) THEN <<>>
  ELSE IF attrs[i].nodeName = name THEN attrs[i].value
  ELSE AttrLookup(attrs, name, i + 1)

\* Element.getAttribute of xmldom: the attribute's value, '' when it is absent.
getAttribute(item, name) == AttrLookup(item.attributes, name, 1)

\* ------------------------------------------------------------------------
\* Tag and attribute tables
\* ------------------------------------------------------------------------

\* Mutant: defs is no longer a quiet tag.
quietTagsNoDefs == {"desc", "title", "metadata"}

\* Tags whose subtree is skipped silently.
quietTags == {"desc", "title", "metadata", "defs"}

\* Attributes whose presence on a processed element is reported.
notQuietAtts ==
  { "requiredFeatures", "requiredExtensions", "systemLanguage", "xml:base",
    "xml:lang", "xml:space", "onfocusin", "onfocusout", "onactivate",
    "onclick", "onmousedown", "onmouseup", "onmouseover", "onmousemove",
    "onmouseout", "onload", "alignment-baseline", "baseline-shift", "clip",
    "clip-path", "clip-rule", "color", "color-interpolation",
    "color-interpolation-filters", "color-profile", "color-rendering",
    "cursor", "direction", "display", "dominant-baseline",
    "enable-background", "fill", "fill-opacity", "fill-rule", "filter",
    "flood-color", "flood-opacity", "font-family", "font-size",
    "font-size-adjust", "font-stretch", "font-style", "font-variant",
    "font-weight", "glyph-orientation-horizontal",
    "glyph-orientation-vertical", "image-rendering", "kerning",
    "letter-spacing", "lighting-color", "marker-end", "marker-mid",
    "marker-start", "mask", "opacity", "overflow", "pointer-events",
    "shape-rendering", "stop-color", "stop-opacity", "stroke",
    "stroke-dasharray", "stroke-dashoffset", "stroke-linecap",
    "stroke-linejoin", "stroke-miterlimit", "stroke-opacity", "stroke-width",
    "text-anchor", "text-decoration", "text-rendering", "unicode-bidi",
    "visibility", "word-spacing", "writing-mode", "class", "style",
    "externalResourcesRequired", "pathLength" }

\* ------------------------------------------------------------------------
\* processTree
\* ------------------------------------------------------------------------

\* Range of a sequence.
Range(s) == {s[i] : i \in 1..Len(s)}

\* Mutant: the key is appended even when the object already has it.
SetKeyAlways(obj, key) == Append(obj, key)

\* obj[key] = true on a plain object: the object is the list of its own
\* keys in insertion order; assigning an existing key keeps its position.
SetKey(obj, key) == IF key \in Range(obj) THEN obj ELSE Append(obj, key)

\* new SvgPath(d).transform(transforms).toString(): no path data gives '',
\* otherwise one segment that records d and the transform string applied.
SvgPathTransform(d, transforms) ==
  IF d = <<>> THEN <<>> ELSE << [d |-> d, t |-> transforms] >>

\* Mutant: the element's own transform is put before the inherited ones.
childTransformsOwnFirst(item, parentTransforms) ==
  IF getAttribute(item, "transform") # <<>>
    THEN getAttribute(item, "transform") \o <<" ">> \o parentTransforms
    ELSE parentTransforms

\* The transform string of a child: the inherited string, a space and the
\* child's own transform attribute when that attribute is non-empty.
childTransforms(item, parentTransforms) ==
  IF getAttribute(item, "transform") # <<>>
    THEN parentTransforms \o <<" ">> \o getAttribute(item, "transform")
    ELSE parentTransforms

\* Mutant: the result of the nested call replaces the flag of this level.
mergeGuaranteedNested(guaranteed, nested) == nested

\* guaranteed = guaranteed && result.guaranteed after a nested g.
mergeGuaranteed(guaranteed, nested) == guaranteed /\ nested

\* Mutant: the new fragment is put in front of the accumulated path.
appendPathFront(path, transformedPath) == transformedPath \o path

\* path += transformedPath.
appendPath(path, transformedPath) == path \o transformedPath

\* Mutant: two non-empty fragments no longer clear the flag.
ambiguousMergeNever(path, transformedPath, guaranteed) == guaranteed

\* The flag after the ambiguous-merge test: cleared when both the
\* accumulated path and the new fragment are non-empty.
ambiguousMerge(path, transformedPath, guaranteed) ==
  IF path # <<>> /\ transformedPath # <<>> THEN FALSE ELSE guaranteed

\* Mutant: a denylisted attribute is recorded but the flag is kept.
attrGuaranteedKept(guaranteed) == guaranteed

\* The flag after a denylisted attribute was met.
attrGuaranteed(guaranteed) == FALSE

RECURSIVE eachAttribute(_, _, _)
\* The loop over item.attributes: every denylisted name is recorded in
\* ignoredAttrs and clears guaranteed.
eachAttribute(attrs, i, st) ==
  IF i > Len(attrs) THEN st
  ELSE IF attrs[i].nodeName \in notQuietAtts
    THEN eachAttribute(attrs, i + 1,
           [st EXCEPT !.guaranteed = attrGuaranteed(@),
                      !.ignoredAttrs = SetKey(@, attrs[i].nodeName)])
    ELSE eachAttribute(attrs, i + 1, st)

RECURSIVE processTree(_, _, _, _, _)
RECURSIVE eachChild(_, _, _, _)
RECURSIVE visitChild(_, _, _)

\* One iteration of the loop over node.childNodes.  st holds the variables
\* the callback closes over (path, guaranteed) and the two shared
\* accumulators.
visitChild(item, parentTransforms, st) ==
  IF item.nodeType # 1 THEN st
  ELSE IF item.nodeName \in quietTags THEN st
  ELSE
    LET transforms == childTransforms(item, parentTransforms)
        result == processTree(item, st.ignoredTags, st.ignoredAttrs,
                              transforms, st.path)
        afterG ==
          IF item.nodeName = "g"
            THEN [path         |-> result.path,
                  ignoredTags  |-> result.ignoredTags,
                  ignoredAttrs |-> result.ignoredAttrs,
                  guaranteed   |-> mergeGuaranteed(st.guaranteed,
                                                   result.guaranteed)]
            ELSE st
    IN IF item.nodeName \notin {"path", "g"}
         THEN [afterG EXCEPT !.ignoredTags = SetKey(@, item.nodeName)]
         ELSE
           LET d == IF item.nodeName = "path"
                      THEN getAttribute(item, "d") ELSE <<>>
               transformedPath == SvgPathTransform(d, transforms)
               merged ==
                 [afterG EXCEPT
                    !.guaranteed = ambiguousMerge(afterG.path,
                                                  transformedPath, @),
                    !.path = appendPath(@, transformedPath)]
           IN eachAttribute(item.attributes, 1, merged)

\* _.each(node.childNodes, ...) from child i on.
eachChild(kids, i, parentTransforms, st) ==
  IF i > Len(kids) THEN st
  ELSE eachChild(kids, i + 1, parentTransforms,
                 visitChild(kids[i], parentTransforms, st))

\* processTree(node, ignoredTags, ignoredAttrs, parentTransforms, path).
processTree(node, ignoredTags, ignoredAttrs, parentTransforms, path) ==
  eachChild(node.childNodes, 1, parentTransforms,
            [path         |-> path,
             ignoredTags  |-> ignoredTags,
             ignoredAttrs |-> ignoredAttrs,
             guaranteed   |-> TRUE])

\* ------------------------------------------------------------------------
\* getCoordinates
\* ------------------------------------------------------------------------

RECURSIVE SkipSpaces(_, _)
\* Index of the first character of s at or after i that is not a space.
SkipSpaces(s, i) ==
  IF i <= Len(s) /\ s[i] = " " THEN SkipSpaces(s, i + 1) ELSE i

RECURSIVE splitFrom(_, _, _, _)
\* String.split on /(?: *, *| +)/g from index i: a separator is a comma with
\* the spaces around it, or else a run of spaces; tok is the piece being
\* read and acc the pieces already cut.
splitFrom(s, i, tok, acc) ==
  IF i > Len(s) THEN Append(acc, tok)
  ELSE
    LET j == SkipSpaces(s, i)
    IN IF j <= Len(s) /\ s[j] = ","
         THEN splitFrom(s, SkipSpaces(s, j + 1), <<>>, Append(acc, tok))
       ELSE IF s[i] = " "
         THEN splitFrom(s, j, <<>>, Append(acc, tok))
       ELSE splitFrom(s, i + 1, Append(tok, s[i]), acc)

\* (viewBoxAttr || '').split(/(?: *, *| +)/g): '' splits into [''].
split(s) == splitFrom(s, 1, <<>>, <<>>)

\* arr[i] of a JS array (0-based): undefined past the end.
At(arr, i) == IF i + 1 <= Len(arr) THEN arr[i + 1] ELSE Undefined

\* Mutant: a percentage is parsed like any other value.
attrValueWithPercent(val) ==
  IF Len(val) > 0 THEN parseFloat(val) ELSE Undefined

\* attr[key] for one of x, y, width, height: the parsed value, left
\* unassigned when the attribute is empty or ends in '%'.
attrValue(val) ==
  IF Len(val) > 0 /\ val[Len(val)] # "%" THEN parseFloat(val) ELSE Undefined

\* Mutant: one usable dimension is enough.
hasBothSizesEither(result) == Truthy(result.width) \/ Truthy(result.height)

\* result.width && result.height
hasBothSizes(result) == Truthy(result.width) /\ Truthy(result.height)

\* Mutant: the viewBox is used as soon as one dimension is unusable.
hasNoSizeEither(result) == ~Truthy(result.width) \/ ~Truthy(result.height)

\* !result.width && !result.height
hasNoSize(result) == ~Truthy(result.width) /\ ~Truthy(result.height)

\* Mutant: the origin is taken from the first two viewBox components.
originFromViewBox(own, fromViewBox) ==
  IF fromViewBox.k = "num" THEN fromViewBox ELSE OrZero(own)

\* attr.x || 0 and attr.y || 0; the viewBox component is not consulted.
origin(own, fromViewBox) == OrZero(own)

\* new Error('Svg viewbox attr has less than 4 params')
ViewBoxMalformedError == "viewbox has less than 4 params"

\* new Error of the negative-size guard.
NegativeSizeError == "sizes can not be negative"

\* new Error('Not implemented yet. There is no width or height')
MissingSizeError == "there is no width or height"

\* The object getCoordinates returns when it only carries an error.
ErrorOnly(err) ==
  [x |-> Undefined, y |-> Undefined, width |-> Undefined,
   height |-> Undefined, error |-> err]

\* getCoordinates(svg)
getCoordinates(svg) ==
  LET viewBoxAttr == getAttribute(svg, "viewBox")
      pieces  == split(viewBoxAttr)
      viewBox == [i \in 1..Len(pieces) |-> parseFloat(pieces[i])]
      attr == [key \in {"x", "y", "width", "height"} |->
                 attrValue(getAttribute(svg, key))]
      result == [x      |-> origin(attr["x"], At(viewBox, 0)),
                 y      |-> origin(attr["y"], At(viewBox, 1)),
                 width  |-> attr["width"],
                 height |-> attr["height"],
                 error  |-> "null"]
  IN IF viewBoxAttr # <<>> /\ Len(viewBox) < 4
       THEN ErrorOnly(ViewBoxMalformedError)
     ELSE IF \/ Negative(At(viewBox, 2)) \/ Negative(At(viewBox, 3))
             \/ Negative(attr["width"]) \/ Negative(attr["height"])
       THEN ErrorOnly(NegativeSizeError)
     ELSE IF viewBoxAttr = <<>>
       THEN IF hasBothSizes(result)
              THEN result
              ELSE [result EXCEPT !.error = MissingSizeError]
     ELSE IF hasNoSize(result)
       THEN [result EXCEPT !.width = At(viewBox, 2), !.height = At(viewBox, 3)]
     ELSE result

\* ------------------------------------------------------------------------
\* Input documents
\* ------------------------------------------------------------------------

\* Childless nodes the generated documents are built from: a text node,
\* paths without data, with data and an own transform, with data and
\* denylisted attributes, a plain and a transformed, styled group, two
\* unsupported tags and a quiet tag.
Shapes ==
  { TextNode,
    Element("path", <<>>, <<>>),
    Element("path", <<Attr("d", <<"B">>), Attr("transform", <<"s">>)>>, <<>>),
    Element("path", <<Attr("stroke", <<"k">>), Attr("d", <<"A">>),
                      Attr("fill", <<"r">>)>>, <<>>),
    Element("g", <<>>, <<>>),
    Element("g", <<Attr("transform", <<"t">>), Attr("fill", <<"r">>)>>, <<>>),
    Element("rect", <<Attr("fill", <<"r">>), Attr("transform", <<"u">>)>>,
            <<>>),
    Element("circle", <<>>, <<>>),
    Element("defs", <<>>, <<>>) }

\* The depth lists of the documents of n nodes written in document order:
\* the first node is a child of the root and a node lies at most one level
\* below the node before it.
DepthLists(n) ==
  { ds \in [1..n -> 1..n] :
      /\ n > 0 => ds[1] = 1
      /\ \A i \in 1..(n - 1) : ds[i + 1] <= ds[i] + 1 }

\* A text node has no children: no node is one level below a text node.
WellFormed(ls, ds) ==
  \A i \in 1..(Len(ls) - 1) : ls[i].nodeType # 1 => ds[i + 1] <= ds[i]

RECURSIVE SubtreeEnd(_, _, _)
\* The index of the last node of the subtree of node i, at or after j.
SubtreeEnd(ds, i, j) ==
  IF j < Len(ds) /\ ds[j + 1] > ds[i] THEN SubtreeEnd(ds, i, j + 1) ELSE j

RECURSIVE BuildForest(_, _, _, _)
\* The child list made of the nodes lo..hi of a document given by its nodes
\* ls and their depths ds in document order.
BuildForest(ls, ds, lo, hi) ==
  IF lo > hi THEN <<>>
  ELSE LET e == SubtreeEnd(ds, lo, lo)
       IN << [ls[lo] EXCEPT !.childNodes = BuildForest(ls, ds, lo + 1, e)] >>
          \o BuildForest(ls, ds, e + 1, hi)

\* The attribute name="val", or nothing when val is ''.
OptAttr(name, val) == IF val = <<>> THEN <<>> ELSE << Attr(name, val) >>

\* viewBox values: absent, "1 2 100 50", "0 0 -10 10", "0,0,0,0", "1 2 3"
\* and "a b c d".
ViewBoxVals ==
  { <<>>,
    <<"1", " ", "2", " ", "1", "0", "0", " ", "5", "0">>,
    <<"0", " ", "0", " ", "-", "1", "0", " ", "1", "0">>,
    <<"0", ",", "0", ",", "0", ",", "0">>,
    <<"1", " ", "2", " ", "3">>,
    <<"a", " ", "b", " ", "c", " ", "d">> }

\* width and height values: absent, "50%", "0", "24", "12", "-1" and "a".
SizeVals ==
  { <<>>, <<"5", "0", "%">>, <<"0">>, <<"2", "4">>, <<"1", "2">>,
    <<"-", "1">>, <<"a">> }

\* x and y values: absent, "5" and "10%".
OriginVals == { <<>>, <<"5">>, <<"1", "0", "%">> }

\* Attribute lists of the svg root over all the sizing values.
RootAttrs ==
  { OptAttr("viewBox", vb) \o OptAttr("x", x) \o OptAttr("y", y) \o
    OptAttr("width", w) \o OptAttr("height", h) :
      vb \in ViewBoxVals, x \in OriginVals, y \in {<<>>, <<"7">>},
      w \in SizeVals, h \in SizeVals }

\* Root attributes of the documents that vary the tree:
\* <svg fill="r" viewBox="1 2 100 50">.
PlainRootAttrs ==
  << Attr("fill", <<"r">>),
     Attr("viewBox", <<"1", " ", "2", " ", "1", "0", "0", " ", "5", "0">>) >>

\* Children of the documents that vary the sizing attributes: a styled path
\* and an unsupported tag, so that every part of the flatten result is set.
PlainForest ==
  << Element("path", <<Attr("stroke", <<"k">>), Attr("d", <<"A">>)>>, <<>>),
     Element("rect", <<>>, <<>>) >>

\* A document whose first svg element has the given attributes and children.
SvgDoc(attrs, kids) == [kind |-> "svg", svg |-> Element("svg", attrs, kids)]

\* The input texts that are not documents with an svg element: kind tells
\* what the XML parser makes of the text (an error on its error channel, a
\* well-formed document without an svg element).
OtherDocs ==
  { [kind |-> "malformed", svg |-> Element("svg", <<>>, <<>>)],
    [kind |-> "nosvg", svg |-> Element("svg", <<>>, <<>>)] }

\* ------------------------------------------------------------------------
\* convert
\* ------------------------------------------------------------------------

VARIABLES
  src,        \* the input of this call of convert
  pc,         \* where convert is: start, parsed, flattened, resolved,
              \* returned, thrown (idle between two calls)
  called,     \* which of processTree and getCoordinates were invoked
  processed,  \* the local variable processed
  coords,     \* the local variable coords
  result,     \* the local variable result, the record convert returns
  svgFiles,   \* the files the command line tool loops over
  fileIdx,    \* the position of svgFiles.forEach in svgFiles (from 1)
  cliPc,      \* where the tool is: off, loop, converting, done, crashed
  glyphs,     \* the array glyphs
  allocatedRefCode  \* the next free glyph code

\* The variables of the command line tool.
cliVars == <<svgFiles, fileIdx, cliPc, glyphs, allocatedRefCode>>

vars == <<src, pc, called, processed, coords, result, svgFiles, fileIdx,
          cliPc, glyphs, allocatedRefCode>>

\* The error the XML parser reports through errorHandler.
XmlParseError == "xml parse error"

\* The record convert starts from.
DefaultRecord ==
  [d |-> <<>>, width |-> Num(0), height |-> Num(0), x |-> Num(0),
   y |-> Num(0), ignoredTags |-> <<>>, ignoredAttrs |-> <<>>,
   error |-> "null", guaranteed |-> FALSE]

\* The value of processed before processTree has returned.
NoFlatten ==
  [path |-> <<>>, ignoredTags |-> <<>>, ignoredAttrs |-> <<>>,
   guaranteed |-> FALSE]

\* _.keys(obj): the own keys in insertion order.
keys(obj) == obj

\* Mutant: the flattened path is copied before the error is tested.
coordErrorRecordWithPath(res, proc, crd) ==
  [res EXCEPT !.d = proc.path, !.error = crd.error]

\* The record returned when getCoordinates reported an error.
coordErrorRecord(res, proc, crd) == [res EXCEPT !.error = crd.error]

\* The record returned on success.
mergedRecord(res, proc, crd) ==
  [res EXCEPT !.d = proc.path,
              !.width = crd.width,
              !.height = crd.height,
              !.x = crd.x,
              !.y = crd.y,
              !.guaranteed = proc.guaranteed,
              !.ignoredTags = keys(proc.ignoredTags),
              !.ignoredAttrs = keys(proc.ignoredAttrs)]

\* var allocatedRefCode = 0xe800
FirstCode == 59392

\* convert is entered with an input text: a text the parser rejects, a
\* document without svg, a document that varies the tree below the root, or
\* one that varies the sizing attributes of the root.
Init ==
  /\ \/ src \in OtherDocs
     \/ \E n \in 0..MaxNodes :
          \E ls \in [1..n -> Shapes] : \E ds \in DepthLists(n) :
            /\ WellFormed(ls, ds)
            /\ src = SvgDoc(PlainRootAttrs, BuildForest(ls, ds, 1, n))
     \/ \E a \in RootAttrs : src = SvgDoc(a, PlainForest)
  /\ pc = "start"
  /\ called = {}
  /\ processed = NoFlatten
  /\ coords = ErrorOnly("null")
  /\ result = DefaultRecord
  /\ svgFiles = <<>>
  /\ fileIdx = 1
  /\ cliPc = "off"
  /\ glyphs = <<>>
  /\ allocatedRefCode = FirstCode

\* parseFromString reported an error: convert returns at once.
ParseError ==
  /\ pc = "start"
  /\ src.kind = "malformed"
  /\ result' = [result EXCEPT !.error = XmlParseError]
  /\ pc' = "returned"
  /\ UNCHANGED cliVars
  /\ UNCHANGED <<src, called, processed, coords>>

\* parseFromString reported nothing.
ParseOk ==
  /\ pc = "start"
  /\ src.kind # "malformed"
  /\ pc' = "parsed"
  /\ UNCHANGED cliVars
  /\ UNCHANGED <<src, called, processed, coords, result>>

\* getElementsByTagName('svg')[0] is undefined: processTree reads
\* node.childNodes of undefined and the TypeError leaves convert.
FlattenThrows ==
  /\ pc = "parsed"
  /\ src.kind = "nosvg"
  /\ called' = called \cup {"processTree"}
  /\ pc' = "thrown"
  /\ UNCHANGED cliVars
  /\ UNCHANGED <<src, processed, coords, result>>

\* processed = processTree(svg, {}, {}, '', '')
Flatten ==
  /\ pc = "parsed"
  /\ src.kind = "svg"
  /\ processed' = processTree(src.svg, <<>>, <<>>, <<>>, <<>>)
  /\ called' = called \cup {"processTree"}
  /\ pc' = "flattened"
  /\ UNCHANGED cliVars
  /\ UNCHANGED <<src, coords, result>>

\* coords = getCoordinates(svg)
Resolve ==
  /\ pc = "flattened"
  /\ coords' = getCoordinates(src.svg)
  /\ called' = called \cup {"getCoordinates"}
  /\ pc' = "resolved"
  /\ UNCHANGED cliVars
  /\ UNCHANGED <<src, processed, result>>

\* coords.error is set: the record carries it and nothing else.
ReturnCoordError ==
  /\ pc = "resolved"
  /\ coords.error # "null"
  /\ result' = coordErrorRecord(result, processed, coords)
  /\ pc' = "returned"
  /\ UNCHANGED cliVars
  /\ UNCHANGED <<src, called, processed, coords>>

\* The flatten result and the coordinate box are merged.
ReturnMerged ==
  /\ pc = "resolved"
  /\ coords.error = "null"
  /\ result' = mergedRecord(result, processed, coords)
  /\ pc' = "returned"
  /\ UNCHANGED cliVars
  /\ UNCHANGED <<src, called, processed, coords>>

Next ==
  \/ ParseError
  \/ ParseOk
  \/ FlattenThrows
  \/ Flatten
  \/ Resolve
  \/ ReturnCoordError
  \/ ReturnMerged

Spec == Init /\ [][Next]_vars

\* convert returned a record without an error.
Succeeded == pc = "returned" /\ result.error = "null"

\* ------------------------------------------------------------------------
\* The document as the claims describe it: nodes are named by their address,
\* the list of child indices that leads to them from the svg root.
\* ------------------------------------------------------------------------

\* The children of the svg root of the input.
RootKids == src.svg.childNodes

RECURSIVE Addrs(_)
\* The addresses of all nodes below a child list.
Addrs(kids) ==
  UNION { { <<i>> } \cup { <<i>> \o a : a \in Addrs(kids[i].childNodes) } :
          i \in 1..Len(kids) }

RECURSIVE NodeAt(_, _)
\* The node at address a below a child list.
NodeAt(kids, a) ==
  IF Len(a) = 1 THEN kids[a[1]] ELSE NodeAt(kids[a[1]].childNodes, Tail(a))

\* The name set of the quiet tags, as the specification lists it.
QuietNames == {"desc", "title", "metadata", "defs"}

\* a is an element whose proper ancestors below the root are all g elements.
UnderGroupsOnly(kids, a) ==
  /\ NodeAt(kids, a).nodeType = 1
  /\ \A n \in 1..(Len(a) - 1) : NodeAt(kids, SubSeq(a, 1, n)).nodeName = "g"

\* a is a g or path element reached through g elements only.
IsProcessed(kids, a) ==
  UnderGroupsOnly(kids, a) /\ NodeAt(kids, a).nodeName \in {"g", "path"}

\* a is an unsupported element reached through g elements only.
IsUnsupported(kids, a) ==
  /\ UnderGroupsOnly(kids, a)
  /\ NodeAt(kids, a).nodeName \notin {"g", "path"} \cup QuietNames

\* a is a path element with path data reached through g elements only.
IsContributing(kids, a) ==
  /\ UnderGroupsOnly(kids, a)
  /\ NodeAt(kids, a).nodeName = "path"
  /\ getAttribute(NodeAt(kids, a), "d") # <<>>

\* a is a proper prefix of b: the node at a is a proper ancestor of that at b.
IsAncestor(a, b) == Len(a) < Len(b) /\ SubSeq(b, 1, Len(a)) = a

\* a and b part at some index, and a goes to the earlier child there.
LeftOf(a, b) ==
  \E n \in 1..Len(a) :
    /\ n <= Len(b)
    /\ SubSeq(a, 1, n - 1) = SubSeq(b, 1, n - 1)
    /\ a[n] < b[n]

\* Document (pre-)order: ancestors first, then left to right.
PreBefore(a, b) == IsAncestor(a, b) \/ LeftOf(a, b)

\* Post-order: descendants first, then left to right.
PostBefore(a, b) == IsAncestor(b, a) \/ LeftOf(a, b)

RECURSIVE InPreOrder(_)
\* The addresses of S as a list in document order.
InPreOrder(S) ==
  IF S = {} THEN <<>>
  ELSE LET m == CHOOSE x \in S : \A y \in S \ {x} : PreBefore(x, y)
       IN <<m>> \o InPreOrder(S \ {m})

RECURSIVE InPostOrder(_)
\* The addresses of S as a list in post-order.
InPostOrder(S) ==
  IF S = {} THEN <<>>
  ELSE LET m == CHOOSE x \in S : \A y \in S \ {x} : PostBefore(x, y)
       IN <<m>> \o InPostOrder(S \ {m})

\* The contributing paths of the input in document order.
ContributingPaths ==
  InPreOrder({ a \in Addrs(RootKids) : IsContributing(RootKids, a) })

RECURSIVE ChainTransform(_, _, _)
\* The transform attributes of the nodes on the way from the root to a, from
\* the n-th node on, each preceded by the separating space; nodes without a
\* transform are skipped.
ChainTransform(kids, a, n) ==
  IF n > Len(a) THEN <<>>
  ELSE LET t == getAttribute(NodeAt(kids, SubSeq(a, 1, n)), "transform")
       IN (IF t = <<>> THEN <<>> ELSE <<" ">> \o t) \o
          ChainTransform(kids, a, n + 1)

\* The denylisted attribute names of a node, in attribute order.
DeniedAttrs(node) ==
  LET idx == { i \in 1..Len(node.attributes) :
                 node.attributes[i].nodeName \in notQuietAtts }
  IN [ j \in 1..Cardinality(idx) |->
         node.attributes[
           CHOOSE i \in idx : Cardinality({ k \in idx : k < i }) = j - 1
         ].nodeName ]

\* ------------------------------------------------------------------------
\* Claims
\* ------------------------------------------------------------------------

\* C1: whenever convert succeeds with guaranteed = true, no processed
\* (g or path) element of the walk carries a denylisted attribute and at
\* most one element contributed non-empty path data.
C1_GuaranteedMeansClean ==
  (Succeeded /\ result.guaranteed) =>
    /\ \A a \in Addrs(RootKids) :
         IsProcessed(RootKids, a) => DeniedAttrs(NodeAt(RootKids, a)) = <<>>
    /\ Len(ContributingPaths) <= 1

\* C1 witness: a successful, guaranteed conversion of a document that holds
\* a group, exactly one contributing path and a second, empty path.
C1_Witness ==
  /\ Succeeded /\ result.guaranteed
  /\ Len(ContributingPaths) = 1
  /\ Len(result.d) = 1
  /\ \E a \in Addrs(RootKids) : Len(a) = 2 /\ IsProcessed(RootKids, a)

\* C2 as stated: unsupported tags and denylisted attributes never make
\* convert fail, and a success that recorded an ignored tag or an ignored
\* attribute has guaranteed = false.
C2_IgnoredMeansDegraded ==
  /\ (pc = "returned" /\ src.kind = "svg"
        /\ src.svg.attributes = PlainRootAttrs) => result.error = "null"
  /\ (Succeeded /\ (result.ignoredTags # <<>> \/ result.ignoredAttrs # <<>>))
       => ~result.guaranteed

\* C2 amended: unsupported tags and denylisted attributes never make convert
\* fail, and a success that recorded an ignored attribute has
\* guaranteed = false (an ignored tag alone does not clear the flag).
C2_IgnoredAttrsMeanDegraded ==
  /\ (pc = "returned" /\ src.kind = "svg"
        /\ src.svg.attributes = PlainRootAttrs) => result.error = "null"
  /\ (Succeeded /\ result.ignoredAttrs # <<>>) => ~result.guaranteed

\* C2 witness: a success that recorded both an ignored tag and an ignored
\* attribute.
C2_Witness ==
  /\ Succeeded
  /\ result.ignoredTags # <<>>
  /\ result.ignoredAttrs # <<>>
  /\ ~result.guaranteed

\* C3: on success d is made, in document order, of the path data of exactly
\* the path elements reached from the root through g elements only;
\* ignoredTags holds exactly the names of the unsupported elements reached
\* that way; two or more contributing paths give guaranteed = false.
C3_FlattenedPath ==
  Succeeded =>
    /\ Len(result.d) = Len(ContributingPaths)
    /\ \A i \in 1..Len(ContributingPaths) :
         result.d[i].d =
           getAttribute(NodeAt(RootKids, ContributingPaths[i]), "d")
    /\ Range(result.ignoredTags) =
         { NodeAt(RootKids, a).nodeName :
             a \in { b \in Addrs(RootKids) : IsUnsupported(RootKids, b) } }
    /\ (Len(ContributingPaths) >= 2 => ~result.guaranteed)

\* C3 witness: two different contributing paths, the first inside a group,
\* next to a path that lies below an unsupported tag.
C3_Witness ==
  /\ Succeeded
  /\ Len(result.d) = 2
  /\ result.d[1].d # result.d[2].d
  /\ ~result.guaranteed
  /\ \E a \in Addrs(RootKids) : Len(a) = 2 /\ IsContributing(RootKids, a)

\* C3 second witness: a path with data below an unsupported tag adds
\* nothing but the name of that tag.
C3_WitnessSkipped ==
  /\ Succeeded
  /\ result.d = <<>>
  /\ result.ignoredTags = <<"rect">>
  /\ \E a \in Addrs(RootKids) :
       /\ Len(a) = 2
       /\ NodeAt(RootKids, a).nodeName = "path"
       /\ getAttribute(NodeAt(RootKids, a), "d") # <<>>

RECURSIVE StripQuiet(_)
\* A child list with every subtree of a quiet tag removed, at any depth.
StripQuiet(kids) ==
  IF kids = <<>> THEN <<>>
  ELSE LET h == Head(kids)
       IN (IF h.nodeName \in QuietNames
             THEN <<>>
             ELSE << [h EXCEPT !.childNodes = StripQuiet(@)] >>)
          \o StripQuiet(Tail(kids))

\* C4: the result of flattening a tree is the result of flattening the same
\* tree with every quiet-tag subtree removed.
C4_QuietSubtreesInvisible ==
  ("processTree" \in called /\ pc # "thrown") =>
    processed =
      processTree([src.svg EXCEPT !.childNodes = StripQuiet(@)],
                  <<>>, <<>>, <<>>, <<>>)

\* C4 witness: a styled path with data two levels below a quiet tag; the
\* flatten result is empty and still guaranteed.
C4_Witness ==
  /\ pc = "flattened"
  /\ processed = [NoFlatten EXCEPT !.guaranteed = TRUE]
  /\ \E a \in Addrs(RootKids) :
       /\ Len(a) = 3
       /\ NodeAt(RootKids, SubSeq(a, 1, 1)).nodeName \in QuietNames
       /\ NodeAt(RootKids, a).nodeName = "path"
       /\ getAttribute(NodeAt(RootKids, a), "d") # <<>>
       /\ DeniedAttrs(NodeAt(RootKids, a)) # <<>>

\* C5: the transform string a contributing path was transformed by is made
\* of the transform attributes of its g ancestors from the root down and
\* then its own, each preceded by the separating space, elements without a
\* transform skipped; no other element's transform is part of it.
C5_TransformChain ==
  Succeeded =>
    /\ Len(result.d) = Len(ContributingPaths)
    /\ \A i \in 1..Len(ContributingPaths) :
         result.d[i].t = ChainTransform(RootKids, ContributingPaths[i], 1)

\* C5 witness: a path with its own transform inside a transformed group.
C5_Witness ==
  /\ Succeeded
  /\ \E i \in 1..Len(result.d) : result.d[i].t = <<" ", "t", " ", "s">>

\* C5 second witness: a path that follows a transformed group as a sibling
\* and is transformed by nothing.
C5_WitnessSibling ==
  /\ Succeeded
  /\ Len(RootKids) = 2
  /\ RootKids[1].nodeName = "g"
  /\ getAttribute(RootKids[1], "transform") # <<>>
  /\ Len(result.d) = 1
  /\ result.d[1].t = <<>>
  /\ IsContributing(RootKids, <<2>>)

\* C6: a record returned with an error has every other field at its
\* default; after a parse error neither processTree nor getCoordinates was
\* invoked; after a coordinate error processTree had run and its result is
\* not in the record.
C6_ErrorRecordIsDefault ==
  (pc = "returned" /\ result.error # "null") =>
    /\ result = [DefaultRecord EXCEPT !.error = result.error]
    /\ (src.kind = "malformed") <=> (result.error = XmlParseError)
    /\ (result.error = XmlParseError) => called = {}
    /\ (result.error # XmlParseError) =>
         /\ called = {"processTree", "getCoordinates"}
         /\ result.error = coords.error

\* C6 witness: a coordinate error returned after a flatten that had
\* produced a path, an ignored tag and an ignored attribute.
C6_Witness ==
  /\ pc = "returned"
  /\ result.error = MissingSizeError
  /\ processed.path # <<>>
  /\ processed.ignoredTags # <<>>
  /\ processed.ignoredAttrs # <<>>
  /\ result.d = <<>>

\* C6 second witness: a parse error returned with nothing invoked.
C6_WitnessParse ==
  pc = "returned" /\ result.error = XmlParseError /\ called = {}

\* C7 as stated: for every input text convert ends by returning a record,
\* also for a well-formed document without an svg element.
C7_ConvertAlwaysReturns ==
  /\ pc # "thrown"
  /\ pc = "returned" =>
       result.error \in {"null", XmlParseError, ViewBoxMalformedError,
                         NegativeSizeError, MissingSizeError}

\* The raw value of a sizing attribute of the svg root.
RootAttr(name) == getAttribute(src.svg, name)

\* The attribute is missing in the sense of the specification: absent or a
\* percentage.
IsMissing(val) == val = <<>> \/ val[Len(val)] = "%"

\* The attribute is unusable as a size: missing, zero or not a number.
IsUnusable(val) == IsMissing(val) \/ ~Truthy(parseFloat(val))

\* The number an attribute that is not missing stands for, else undefined.
Explicit(val) == IF IsMissing(val) THEN Undefined ELSE parseFloat(val)

\* getCoordinates has run on a root without viewBox and without a negative
\* explicit size.
NoViewBoxCase ==
  /\ "getCoordinates" \in called
  /\ RootAttr("viewBox") = <<>>
  /\ ~Negative(Explicit(RootAttr("width")))
  /\ ~Negative(Explicit(RootAttr("height")))

\* The box of explicit values: {x: x or 0, y: y or 0, width, height}.
ExplicitBox ==
  [x      |-> OrZero(Explicit(RootAttr("x"))),
   y      |-> OrZero(Explicit(RootAttr("y"))),
   width  |-> Explicit(RootAttr("width")),
   height |-> Explicit(RootAttr("height")),
   error  |-> "null"]

\* C8 as stated: without viewBox, the missing-size error is reported exactly
\* when width or height is absent or a percentage; otherwise the explicit
\* values are returned, whatever they are (0 included).
C8_MissingSizeIffAbsent ==
  NoViewBoxCase =>
    /\ (coords.error = MissingSizeError) <=>
         (IsMissing(RootAttr("width")) \/ IsMissing(RootAttr("height")))
    /\ (coords.error # MissingSizeError) => coords = ExplicitBox

\* C8 amended: without viewBox, the missing-size error is reported exactly
\* when width or height is absent, a percentage, zero or not a number;
\* otherwise the explicit values are returned.
C8_MissingSizeIffUnusable ==
  NoViewBoxCase =>
    /\ (coords.error = MissingSizeError) <=>
         (IsUnusable(RootAttr("width")) \/ IsUnusable(RootAttr("height")))
    /\ (coords.error # MissingSizeError) => coords = ExplicitBox

\* C8 witness: width="0" height="24" without viewBox is refused.
C8_Witness ==
  /\ NoViewBoxCase
  /\ RootAttr("width") = <<"0">>
  /\ RootAttr("height") = <<"2", "4">>
  /\ coords.error = MissingSizeError

\* C8 second witness: width="24" height="12" x="5" without viewBox.
C8_WitnessOk ==
  /\ NoViewBoxCase
  /\ coords = [x |-> Num(5), y |-> Num(0), width |-> Num(24),
               height |-> Num(12), error |-> "null"]

\* The four numbers of the viewBox of the root.
ViewBoxNums ==
  LET pieces == split(RootAttr("viewBox"))
  IN [i \in 1..Len(pieces) |-> parseFloat(pieces[i])]

\* getCoordinates has run on a root with a valid viewBox (four numbers, no
\* negative size) and without a negative explicit size.
ValidViewBoxCase ==
  /\ "getCoordinates" \in called
  /\ RootAttr("viewBox") # <<>>
  /\ Len(ViewBoxNums) = 4
  /\ \A i \in 1..4 : ViewBoxNums[i].k = "num"
  /\ ViewBoxNums[3].v >= 0 /\ ViewBoxNums[4].v >= 0
  /\ ~Negative(Explicit(RootAttr("width")))
  /\ ~Negative(Explicit(RootAttr("height")))

\* The box taken from the viewBox: its sizes, the root's own x and y.
ViewBoxSizedBox ==
  [ExplicitBox EXCEPT !.width = ViewBoxNums[3], !.height = ViewBoxNums[4]]

\* C9 as stated: with a valid viewBox, the sizes are the viewBox sizes when
\* width and height are both absent, and the explicit values (a missing one
\* undefined) when at least one is set, whatever its value; x and y are the
\* root's own.
C9_ViewBoxOnlyWhenBothAbsent ==
  ValidViewBoxCase =>
    coords = IF IsMissing(RootAttr("width")) /\ IsMissing(RootAttr("height"))
               THEN ViewBoxSizedBox
               ELSE ExplicitBox

\* C9 amended: with a valid viewBox, the sizes are the viewBox sizes when
\* width and height are both unusable (absent, a percentage, zero or not a
\* number), and the explicit values (a missing one undefined) when at least
\* one is a non-zero number; x and y are the root's own.
C9_ViewBoxOnlyWhenBothUnusable ==
  ValidViewBoxCase =>
    coords = IF IsUnusable(RootAttr("width")) /\ IsUnusable(RootAttr("height"))
               THEN ViewBoxSizedBox
               ELSE ExplicitBox

\* C9 witness: viewBox="1 2 100 50" width="24" and no height gives width 24,
\* height undefined, x = y = 0.
C9_Witness ==
  /\ ValidViewBoxCase
  /\ coords = [x |-> Num(0), y |-> Num(0), width |-> Num(24),
               height |-> Undefined, error |-> "null"]
  /\ ViewBoxNums[1] = Num(1)

\* C9 second witness: viewBox="1 2 100 50" width="0" and no height gives
\* the viewBox sizes.
C9_WitnessZero ==
  /\ ValidViewBoxCase
  /\ RootAttr("width") = <<"0">>
  /\ RootAttr("height") = <<>>
  /\ coords = [x |-> Num(0), y |-> Num(0), width |-> Num(100),
               height |-> Num(50), error |-> "null"]

\* The place of the names used in the documents in the sorted order of
\* strings.
NameRank ==
  ("circle" :> 1) @@ ("defs" :> 2) @@ ("fill" :> 3) @@ ("rect" :> 4) @@
  ("stroke" :> 5)

\* The list is strictly increasing: sorted and without duplicates.
IsSortedUnique(list) ==
  \A i \in 1..Len(list) : \A j \in 1..Len(list) :
    i < j => NameRank[list[i]] < NameRank[list[j]]

\* No name occurs twice in the list.
IsUnique(list) ==
  \A i \in 1..Len(list) : \A j \in 1..Len(list) :
    i < j => list[i] # list[j]

RECURSIVE Dedup(_)
\* The list with only the first occurrence of every name kept.
Dedup(list) ==
  IF list = <<>> THEN <<>>
  ELSE LET front == Dedup(SubSeq(list, 1, Len(list) - 1))
           last  == list[Len(list)]
       IN IF last \in Range(front) THEN front ELSE Append(front, last)

RECURSIVE Flatten2(_)
\* The concatenation of a list of lists.
Flatten2(lists) ==
  IF lists = <<>> THEN <<>> ELSE Head(lists) \o Flatten2(Tail(lists))

\* The names of the unsupported elements in the order the walk meets them:
\* document order.
TagsAsMet ==
  LET as == InPreOrder({ a \in Addrs(RootKids) : IsUnsupported(RootKids, a) })
  IN [i \in 1..Len(as) |-> NodeAt(RootKids, as[i]).nodeName]

\* The denylisted attribute names in the order the walk records them: the
\* attributes of a g are read after its subtree, so element by element in
\* post-order.
AttrsAsRecorded ==
  LET as == InPostOrder({ a \in Addrs(RootKids) : IsProcessed(RootKids, a) })
  IN Flatten2([i \in 1..Len(as) |-> DeniedAttrs(NodeAt(RootKids, as[i]))])

\* C10 as stated: on success ignoredTags and ignoredAttrs are sorted,
\* duplicate-free lists of exactly the names accumulated during the walk.
C10_IgnoredListsSorted ==
  Succeeded =>
    /\ IsSortedUnique(result.ignoredTags)
    /\ IsSortedUnique(result.ignoredAttrs)
    /\ Range(result.ignoredTags) = Range(TagsAsMet)
    /\ Range(result.ignoredAttrs) = Range(AttrsAsRecorded)

\* C10 amended: on success ignoredTags and ignoredAttrs are duplicate-free
\* lists of exactly the names accumulated during the walk, in the order in
\* which each name was first recorded.
C10_IgnoredListsInRecordingOrder ==
  Succeeded =>
    /\ IsUnique(result.ignoredTags)
    /\ IsUnique(result.ignoredAttrs)
    /\ result.ignoredTags = Dedup(TagsAsMet)
    /\ result.ignoredAttrs = Dedup(AttrsAsRecorded)

\* C10 witness: both lists hold two names in an order that is not sorted,
\* and a name that was met more than once.
C10_Witness ==
  /\ Succeeded
  /\ result.ignoredTags = <<"rect", "circle">>
  /\ Len(TagsAsMet) > 2

\* C10 second witness: attribute names in unsorted order, one met twice.
C10_WitnessAttrs ==
  /\ Succeeded
  /\ result.ignoredAttrs = <<"stroke", "fill">>
  /\ Len(AttrsAsRecorded) > 2

\* The number of pieces of the root's viewBox that parse as numbers.
NumericTokens ==
  Cardinality({ i \in 1..Len(ViewBoxNums) : ViewBoxNums[i].k = "num" })

\* C11 as stated: a viewBox that is present but yields fewer than 4 numeric
\* tokens (too few tokens, or tokens that are not numbers) makes
\* getCoordinates fail with the viewBox-malformed error, and convert
\* returns that error.
C11_MalformedViewBoxFails ==
  ("getCoordinates" \in called /\ RootAttr("viewBox") # <<>>
      /\ NumericTokens < 4) =>
    /\ coords.error = ViewBoxMalformedError
    /\ pc = "returned" => result.error = ViewBoxMalformedError

\* C11, the part the code keeps: a viewBox of fewer than 4 pieces is refused
\* and convert returns that error.
C11_TooFewPiecesFails ==
  ("getCoordinates" \in called /\ RootAttr("viewBox") # <<>>
      /\ Len(ViewBoxNums) < 4) =>
    /\ coords.error = ViewBoxMalformedError
    /\ pc = "returned" => result.error = ViewBoxMalformedError

\* C11 reached case: viewBox="a b c d" is accepted and convert returns a
\* success whose width and height are NaN.
C11_NaNBoxReturned ==
  /\ Succeeded
  /\ RootAttr("viewBox") = <<"a", " ", "b", " ", "c", " ", "d">>
  /\ NumericTokens = 0
  /\ result.width = NaN
  /\ result.height = NaN

\* ------------------------------------------------------------------------
\* The glyph-building loop of the command line tool
\* ------------------------------------------------------------------------

\* Largest number of svg files in the folder.
MaxFiles == 3

\* What the files of the folder can hold: text the parser rejects, a
\* document without svg, a document without sizes, a document without path
\* data, a document with path data, one with path data and a NaN box.
FileDocs ==
  OtherDocs \cup
  { SvgDoc(<<>>, PlainForest),
    SvgDoc(PlainRootAttrs, <<>>),
    SvgDoc(PlainRootAttrs, PlainForest),
    SvgDoc(<<Attr("viewBox", <<"a", " ", "b", " ", "c", " ", "d">>)>>,
           PlainForest) }

\* new SvgPath(result.d).translate(-x, -y).scale(1000 / height).abs()
\* .round(1).toString(): every segment of d, moved and scaled; '' stays ''.
normalizedPath(res) ==
  [i \in 1..Len(res.d) |->
     [segment |-> res.d[i], x |-> res.x, y |-> res.y, height |-> res.height]]

\* Mutant: the code is incremented before it is read (++allocatedRefCode).
glyphCodePreIncrement(code) == code + 1

\* code: allocatedRefCode++ gives the glyph the value before the increment.
glyphCode(code) == code

\* Mutant: a file without path data still consumes a code.
codeAfterSkipConsumed(code) == code + 1

\* allocatedRefCode after a file that returned before glyphs.push.
codeAfterSkip(code) == code

\* The glyph pushed for the file at position idx; its name comes from the
\* file name, which stands here for the position of the file.
newGlyph(idx, res, code) ==
  [css |-> idx, code |-> glyphCode(code), src |-> "custom_icons",
   selected |-> TRUE, svg |-> [path |-> normalizedPath(res), width |-> 1000]]

\* The tool starts: allocatedRefCode = 0xe800, the svg files of the folder
\* are listed and glyphs is empty.
InitCli ==
  /\ \E n \in 0..MaxFiles : svgFiles \in [1..n -> FileDocs]
  /\ fileIdx = 1
  /\ cliPc = "loop"
  /\ glyphs = <<>>
  /\ allocatedRefCode = FirstCode
  /\ src = SvgDoc(<<>>, <<>>)
  /\ pc = "idle"
  /\ called = {}
  /\ processed = NoFlatten
  /\ coords = ErrorOnly("null")
  /\ result = DefaultRecord

\* createGlyph is called with the next file: the file is read and convert
\* is entered with its text.
ReadFile ==
  /\ cliPc = "loop"
  /\ fileIdx <= Len(svgFiles)
  /\ src' = svgFiles[fileIdx]
  /\ pc' = "start"
  /\ called' = {}
  /\ processed' = NoFlatten
  /\ coords' = ErrorOnly("null")
  /\ result' = DefaultRecord
  /\ cliPc' = "converting"
  /\ UNCHANGED <<svgFiles, fileIdx, glyphs, allocatedRefCode>>

\* result.error is set: the error is logged and the file is left.
GlyphError ==
  /\ cliPc = "converting"
  /\ pc = "returned"
  /\ result.error # "null"
  /\ allocatedRefCode' = codeAfterSkip(allocatedRefCode)
  /\ fileIdx' = fileIdx + 1
  /\ cliPc' = "loop"
  /\ pc' = "idle"
  /\ UNCHANGED <<src, called, processed, coords, result, svgFiles, glyphs>>

\* The normalized path is '': "has no path data" is logged, the file is left.
GlyphEmpty ==
  /\ cliPc = "converting"
  /\ pc = "returned"
  /\ result.error = "null"
  /\ normalizedPath(result) = <<>>
  /\ allocatedRefCode' = codeAfterSkip(allocatedRefCode)
  /\ fileIdx' = fileIdx + 1
  /\ cliPc' = "loop"
  /\ pc' = "idle"
  /\ UNCHANGED <<src, called, processed, coords, result, svgFiles, glyphs>>

\* glyphs.push({..., code: allocatedRefCode++, ...})
GlyphPush ==
  /\ cliPc = "converting"
  /\ pc = "returned"
  /\ result.error = "null"
  /\ normalizedPath(result) # <<>>
  /\ glyphs' = Append(glyphs, newGlyph(fileIdx, result, allocatedRefCode))
  /\ allocatedRefCode' = allocatedRefCode + 1
  /\ fileIdx' = fileIdx + 1
  /\ cliPc' = "loop"
  /\ pc' = "idle"
  /\ UNCHANGED <<src, called, processed, coords, result, svgFiles>>

\* convert threw: the exception leaves forEach and ends the tool.
GlyphCrash ==
  /\ cliPc = "converting"
  /\ pc = "thrown"
  /\ cliPc' = "crashed"
  /\ UNCHANGED <<src, pc, called, processed, coords, result, svgFiles,
                 fileIdx, glyphs, allocatedRefCode>>

\* forEach has visited every file.
LoopDone ==
  /\ cliPc = "loop"
  /\ fileIdx > Len(svgFiles)
  /\ cliPc' = "done"
  /\ UNCHANGED <<src, pc, called, processed, coords, result, svgFiles,
                 fileIdx, glyphs, allocatedRefCode>>

NextCli ==
  \/ ReadFile
  \/ ParseError
  \/ ParseOk
  \/ FlattenThrows
  \/ Flatten
  \/ Resolve
  \/ ReturnCoordError
  \/ ReturnMerged
  \/ GlyphError
  \/ GlyphEmpty
  \/ GlyphPush
  \/ GlyphCrash
  \/ LoopDone

SpecCli == InitCli /\ [][NextCli]_vars

\* The file holds a document that converts without error to a path that is
\* not empty.
YieldsGlyph(doc) ==
  /\ doc.kind = "svg"
  /\ getCoordinates(doc.svg).error = "null"
  /\ processTree(doc.svg, <<>>, <<>>, <<>>, <<>>).path # <<>>

\* The positions of the files createGlyph has finished with.
FilesDone == 1..(fileIdx - 1)

\* C12: at all times the glyphs carry the codes 0xE800, 0xE801, ... in file
\* order without gaps or duplicates, a glyph was pushed for exactly the
\* finished files that convert without error to a non-empty path, and the
\* number of glyphs is allocatedRefCode - 0xE800.
C12_CodesConsecutive ==
  /\ Len(glyphs) = allocatedRefCode - 59392
  /\ \A i \in 1..Len(glyphs) : glyphs[i].code = 59392 + (i - 1)
  /\ \A i \in 1..Len(glyphs) : \A j \in 1..Len(glyphs) :
       i < j => glyphs[i].css < glyphs[j].css
  /\ { glyphs[i].css : i \in 1..Len(glyphs) } =
       { k \in FilesDone : YieldsGlyph(svgFiles[k]) }

\* C12 witness: three files were visited, the middle one was skipped, and
\* the two glyphs carry 0xE800 and 0xE801.
C12_Witness ==
  /\ cliPc = "done"
  /\ Len(svgFiles) = 3
  /\ ~YieldsGlyph(svgFiles[2])
  /\ Len(glyphs) = 2
  /\ glyphs[1].code = 59392 /\ glyphs[2].code = 59393
  /\ glyphs[1].css = 1 /\ glyphs[2].css = 3

====
